---------------------------- MODULE Spec2Model ----------------------------
(***************************************************************************)
(* pfly_rust: init() connects a Unix stream socket to /tmp/pf.sock and     *)
(* send_message(pfly_socket, data) writes the bincode encoding of a        *)
(* PflyIpcData record to it.                                               *)
(*                                                                         *)
(* Bytes are integers 0..255.  An i32 is an integer in -2^31..2^31-1.  An  *)
(* f64 is represented by its IEEE-754 binary64 bit pattern, written as the *)
(* sequence of its 8 bytes, most significant byte first.  A &str is the    *)
(* sequence of its UTF-8 bytes.                                            *)
(***************************************************************************)
EXTENDS Integers, Sequences, FiniteSets, TLC

VARIABLES
    pc,          \* position of the calling flow
    service,     \* what is at /tmp/pf.sock: "listening", "absent", "stale", "denied"
    sock,        \* sock[h]: the Socket object h (state, owner, connect result)
    nextSock,    \* id of the next Socket to be allocated
    cur,         \* the Socket the running call works on (0: none)
    data,        \* send_message's parameter `data` (<<>> outside a call)
    payload,     \* send_message's local `payload` (<<>> outside a call)
    nConnect,    \* OS connect attempts made by the running/last init call
    nWrite,      \* OS write attempts made by the running/last send_message call
    wres,        \* result of the last OS write of the running call
    stream,      \* stream[h]: the bytes the peer got on h's connection, in order
    peerOpen,    \* peerOpen[h]: the peer still has h's connection open
    log,         \* completed send_message calls, in call order
    panicAt,     \* source line of the panic that ended the calling flow (0: none)
    recs,        \* the encoder check's input records
    outs         \* the encoder check's outputs, outs[i] = serialize(recs[i])

vars == <<pc, service, sock, nextSock, cur, data, payload, nConnect, nWrite,
          wres, stream, peerOpen, log, panicAt, recs, outs>>

---------------------------------------------------------------------------
(* Bounds of the model *)

\* number of init() calls one behaviour makes
MaxInit == 2

---------------------------------------------------------------------------
(* The record and its encoding *)

\* struct PflyIpcData: the fields in declaration order, with their types
PflyIpcData ==
    << <<"altitude", "i32">>, <<"agl", "i32">>, <<"groundspeed", "i32">>,
       <<"ias", "i32">>, <<"headingTrue", "i32">>, <<"headingMagnetic", "i32">>,
       <<"latitude", "f64">>, <<"longitude", "f64">>,
       <<"verticalSpeed", "i32">>, <<"landingVerticalSpeed", "i32">>,
       <<"gForce", "i32">>, <<"fuel", "i32">>, <<"transponder", "i32">>,
       <<"bridgeType", "u8">>,
       <<"isOnGround", "bool">>, <<"isSlew", "bool">>, <<"isPaused", "bool">>,
       <<"pitch", "i32">>, <<"roll", "i32">>, <<"time", "i32">>, <<"fps", "i32">>,
       <<"aircraftType", "str">> >>

RECURSIVE LEBytes(_, _)
\* the w low-order bytes of integer n (two's complement), least significant first
LEBytes(n, w) == IF w = 0 THEN <<>> ELSE <<n % 256>> \o LEBytes(n \div 256, w - 1)

RECURSIVE Reverse(_)
Reverse(s) == IF s = <<>> THEN <<>> ELSE Reverse(Tail(s)) \o <<Head(s)>>

\* a plausible slip: the length of a &str written as a u32
SerStrLen32(s) == LEBytes(Len(s), 4) \o s

\* a plausible slip: a bool written as a 32-bit integer
SerBoolWord(b) == LEBytes(IF b THEN 1 ELSE 0, 4)

\* a plausible slip: network byte order for i32
SerI32BE(v) == Reverse(LEBytes(v, 4))

\* bincode (fixed-width integers, little endian) of one value of each type
SerI32(v) == LEBytes(v, 4)
SerF64(v) == Reverse(v)
SerU8(v) == <<v>>
SerBool(b) == IF b THEN <<1>> ELSE <<0>>
SerStr(s) == LEBytes(Len(s), 8) \o s

SerValue(ty, v) ==
    CASE ty = "i32" -> SerI32(v)
      [] ty = "f64" -> SerF64(v)
      [] ty = "u8" -> SerU8(v)
      [] ty = "bool" -> SerBool(v)
      [] ty = "str" -> SerStr(v)

RECURSIVE SerFields(_, _)
\* the derived Serialize: fields i.. of d, one after the other
SerFields(d, i) ==
    IF i > Len(PflyIpcData) THEN <<>>
    ELSE SerValue(PflyIpcData[i][2], d[PflyIpcData[i][1]]) \o SerFields(d, i + 1)

\* a plausible slip: a leading format-version byte
serializeVersioned(d) == <<1>> \o SerFields(d, 1)

\* bincode::serialize(&data).unwrap()
serialize(d) == SerFields(d, 1)

---------------------------------------------------------------------------
(* Input records *)

F64Zero == <<0, 0, 0, 0, 0, 0, 0, 0>>
\* 43.6772222 and -79.6305556, the documentation example's position
F64Lat == <<64, 69, 214, 175, 55, 144, 144, 6>>
F64Lon == <<192, 83, 232, 91, 5, 224, 19, 209>>

I32Min == -2147483647 - 1
I32Samples == {569, -1, 2147483647, I32Min, 256, -79}
F64Samples == {F64Lat, F64Lon}
U8Samples == {1, 3, 255}
StrSamples == {<<66>>, <<66, 55, 55, 87>>, <<66, 55, 51, 56, 77>>}

Samples(ty) ==
    CASE ty = "i32" -> I32Samples
      [] ty = "f64" -> F64Samples
      [] ty = "u8" -> U8Samples
      [] ty = "bool" -> {TRUE}
      [] ty = "str" -> StrSamples

ZeroRecord ==
    [altitude |-> 0, agl |-> 0, groundspeed |-> 0, ias |-> 0, headingTrue |-> 0,
     headingMagnetic |-> 0, latitude |-> F64Zero, longitude |-> F64Zero,
     verticalSpeed |-> 0, landingVerticalSpeed |-> 0, gForce |-> 0, fuel |-> 0,
     transponder |-> 0, bridgeType |-> 0, isOnGround |-> FALSE, isSlew |-> FALSE,
     isPaused |-> FALSE, pitch |-> 0, roll |-> 0, time |-> 0, fps |-> 0,
     aircraftType |-> <<>>]

\* the record of send_message's documentation example
ExampleRecord ==
    [ZeroRecord EXCEPT !.altitude = 569, !.latitude = F64Lat, !.longitude = F64Lon,
                       !.gForce = 1000, !.fuel = 20000, !.transponder = 1425,
                       !.bridgeType = 3, !.isOnGround = TRUE, !.fps = 120,
                       !.aircraftType = <<66, 55, 55, 87>>]

\* records differing from ZeroRecord or ExampleRecord in one field
Records ==
    {ZeroRecord, ExampleRecord} \cup
    UNION { { [b EXCEPT ![PflyIpcData[i][1]] = v] : v \in Samples(PflyIpcData[i][2]) }
            : <<b, i>> \in {ZeroRecord, ExampleRecord} \X DOMAIN PflyIpcData }


\* the records the calling flow sends
SendRecords == {ExampleRecord, [ExampleRecord EXCEPT !.aircraftType = <<66>>]}

\* the second record of an encoder check: records whose text lengths differ
PairRecords ==
    {ZeroRecord, ExampleRecord} \cup
    {[ExampleRecord EXCEPT !.aircraftType = t, !.altitude = -1] : t \in StrSamples}

---------------------------------------------------------------------------
(* The operating system and the peer *)

Socks == 1..MaxInit

ServiceStates == {"listening", "absent", "stale", "denied"}

\* what connect(2) to /tmp/pf.sock can answer
ConnectOutcomes ==
    CASE service = "listening" -> {"Ok", "EINTR"}
      [] service = "absent" -> {"ENOENT"}
      [] service = "stale" -> {"ECONNREFUSED"}
      [] service = "denied" -> {"EACCES"}

\* the byte counts a send(2) of len bytes is modelled to accept
Accepts(len) == {k \in {0, 80, len} : 0 <= k /\ k <= len}

\* what send(2) of len bytes on socket h can answer
WriteOutcomes(h, len) ==
    IF peerOpen[h]
    THEN {[ok |-> TRUE, n |-> k, err |-> "none"] : k \in Accepts(len)}
         \cup {[ok |-> FALSE, n |-> 0, err |-> "EAGAIN"]}
    ELSE {[ok |-> FALSE, n |-> 0, err |-> "EPIPE"]}

NoWrite == [ok |-> FALSE, n |-> 0, err |-> "unset"]

NoSock == [state |-> "none", owner |-> "none", conn |-> "none"]

\* the service starts, stops, or its socket file changes (only the connect of
\* init reads it, so a change during a call is taken as made before the call)
ServiceChange ==
    /\ pc = "idle"
    /\ \E s \in ServiceStates \ {service} : service' = s
    /\ UNCHANGED <<pc, sock, nextSock, cur, data, payload, nConnect, nWrite, wres,
                   stream, peerOpen, log, panicAt, recs, outs>>

\* the peer closes its end of h's connection while this end is open
PeerClose ==
    /\ \E h \in Socks :
          /\ sock[h].state = "connected"
          /\ peerOpen[h]
          /\ peerOpen' = [peerOpen EXCEPT ![h] = FALSE]
    /\ UNCHANGED <<pc, service, sock, nextSock, cur, data, payload, nConnect,
                   nWrite, wres, stream, log, panicAt, recs, outs>>

---------------------------------------------------------------------------
(* init *)

\* a plausible slip: only a refused connection is treated as a failure
is_errRefusedOnly(r) == r = "ECONNREFUSED"

\* Result::is_err of the connect result
is_err(r) == r # "Ok"

\* a plausible slip: the write result also checked against the payload length
is_okWhole(r) == r.ok /\ r.n = Len(payload)

\* a plausible slip: the write result ignored
is_okAlways(r) == TRUE

\* Result::is_ok of the send result
is_ok(r) == r.ok

\* the calling flow calls init()
CallInit ==
    /\ pc = "idle"
    /\ nextSock <= MaxInit
    /\ pc' = "init_new"
    /\ nConnect' = 0
    /\ UNCHANGED <<service, sock, nextSock, cur, data, payload, nWrite, wres,
                   stream, peerOpen, log, panicAt, recs, outs>>

\* Socket::new(Domain::unix(), Type::stream(), None).unwrap()
InitNewSocket ==
    /\ pc = "init_new"
    /\ \E created \in BOOLEAN :
          IF created
          THEN /\ sock' = [sock EXCEPT ![nextSock] =
                              [state |-> "unconnected", owner |-> "init", conn |-> "none"]]
               /\ cur' = nextSock
               /\ nextSock' = nextSock + 1
               /\ pc' = "init_addr"
               /\ UNCHANGED panicAt
          ELSE /\ pc' = "panicked"
               /\ panicAt' = 25
               /\ UNCHANGED <<sock, cur, nextSock>>
    /\ UNCHANGED <<service, data, payload, nConnect, nWrite, wres, stream, peerOpen,
                   log, recs, outs>>

\* &SockAddr::unix("/tmp/pf.sock").unwrap(): the path fits sun_path, so it is Ok
InitAddr ==
    /\ pc = "init_addr"
    /\ pc' = "init_connect"
    /\ UNCHANGED <<service, sock, nextSock, cur, data, payload, nConnect, nWrite,
                   wres, stream, peerOpen, log, panicAt, recs, outs>>

\* pfly_socket.connect(pfly_socket_addr)
InitConnect ==
    /\ pc = "init_connect"
    /\ \E r \in ConnectOutcomes :
          /\ sock' = [sock EXCEPT ![cur].conn = r,
                                  ![cur].state = IF r = "Ok" THEN "connected" ELSE @]
          /\ peerOpen' = [peerOpen EXCEPT ![cur] = (r = "Ok")]
    /\ nConnect' = nConnect + 1
    /\ pc' = "init_connected"
    /\ UNCHANGED <<service, nextSock, cur, data, payload, nWrite, wres, stream, log,
                   panicAt, recs, outs>>

\* a plausible slip: connect attempted again after a failure
InitPanicRetry ==
    /\ pc = "init_connected"
    /\ is_err(sock[cur].conn)
    /\ pc' = IF nConnect < 3 THEN "init_connect" ELSE "panicked"
    /\ UNCHANGED <<service, sock, nextSock, cur, data, payload, nConnect, nWrite,
                   wres, stream, peerOpen, log, panicAt, recs, outs>>

\* if ... .is_err() { panic!("Could not connect to projectFly socket!") }
\* (the unwinding drops pfly_socket)
InitPanic ==
    /\ pc = "init_connected"
    /\ is_err(sock[cur].conn)
    /\ pc' = "panicked"
    /\ panicAt' = 29
    /\ sock' = [sock EXCEPT ![cur].state = "closed", ![cur].owner = "none"]
    /\ cur' = 0
    /\ UNCHANGED <<service, nextSock, data, payload, nConnect, nWrite, wres, stream,
                   peerOpen, log, recs, outs>>

\* return pfly_socket;
InitReturn ==
    /\ pc = "init_connected"
    /\ ~is_err(sock[cur].conn)
    /\ sock' = [sock EXCEPT ![cur].owner = "caller"]
    /\ cur' = 0
    /\ pc' = "idle"
    /\ UNCHANGED <<service, nextSock, data, payload, nConnect, nWrite, wres, stream,
                   peerOpen, log, panicAt, recs, outs>>

---------------------------------------------------------------------------
(* send_message *)

\* the calling flow calls send_message(pfly_socket, data): both are moved in
CallSend ==
    /\ pc = "idle"
    /\ \E h \in Socks, d \in SendRecords :
          /\ sock[h].owner = "caller"
          /\ sock' = [sock EXCEPT ![h].owner = "send_message"]
          /\ cur' = h
          /\ data' = d
    /\ pc' = "send_serialize"
    /\ nWrite' = 0
    /\ wres' = NoWrite
    /\ UNCHANGED <<service, nextSock, payload, nConnect, stream, peerOpen, log,
                   panicAt, recs, outs>>

\* let payload: Vec<u8> = bincode::serialize(&data).unwrap();
SendSerialize ==
    /\ pc = "send_serialize"
    /\ payload' = serialize(data)
    /\ pc' = "send_write"
    /\ UNCHANGED <<service, sock, nextSock, cur, data, nConnect, nWrite, wres,
                   stream, peerOpen, log, panicAt, recs, outs>>

\* pfly_socket.send(payload.as_ref())
SendWrite ==
    /\ pc = "send_write"
    /\ \E r \in WriteOutcomes(cur, Len(payload)) :
          /\ wres' = r
          /\ stream' = [stream EXCEPT ![cur] = @ \o SubSeq(payload, 1, r.n)]
    /\ nWrite' = nWrite + 1
    /\ pc' = "send_return"
    /\ UNCHANGED <<service, sock, nextSock, cur, data, payload, nConnect, peerOpen,
                   log, panicAt, recs, outs>>

\* return ... .is_ok();  the parameters pfly_socket and data go out of scope
SendReturn ==
    /\ pc = "send_return"
    /\ log' = Append(log, [h |-> cur, data |-> data, payload |-> payload,
                           nWrite |-> nWrite, wres |-> wres, ret |-> is_ok(wres)])
    /\ sock' = [sock EXCEPT ![cur].state = "closed", ![cur].owner = "none"]
    /\ cur' = 0
    /\ data' = <<>>
    /\ payload' = <<>>
    /\ pc' = "idle"
    /\ UNCHANGED <<service, nextSock, nConnect, nWrite, wres, stream, peerOpen,
                   panicAt, recs, outs>>

---------------------------------------------------------------------------
(* The program under its caller and environment *)

Init ==
    /\ pc = "idle"
    /\ service \in ServiceStates
    /\ sock = [h \in Socks |-> NoSock]
    /\ nextSock = 1
    /\ cur = 0
    /\ data = <<>>
    /\ payload = <<>>
    /\ nConnect = 0
    /\ nWrite = 0
    /\ wres = NoWrite
    /\ stream = [h \in Socks |-> <<>>]
    /\ peerOpen = [h \in Socks |-> FALSE]
    /\ log = <<>>
    /\ panicAt = 0
    /\ recs = <<>>
    /\ outs = <<>>

Next ==
    \/ CallInit
    \/ InitNewSocket
    \/ InitAddr
    \/ InitConnect
    \/ InitPanic
    \/ InitReturn
    \/ CallSend
    \/ SendSerialize
    \/ SendWrite
    \/ SendReturn
    \/ ServiceChange
    \/ PeerClose

Spec == Init /\ [][Next]_vars

---------------------------------------------------------------------------
(* The encoder alone, on pairs of records *)

InitEnc ==
    /\ pc = "idle"
    /\ service = "absent"
    /\ sock = [h \in Socks |-> NoSock]
    /\ nextSock = 1
    /\ cur = 0
    /\ data = <<>>
    /\ payload = <<>>
    /\ nConnect = 0
    /\ nWrite = 0
    /\ wres = NoWrite
    /\ stream = [h \in Socks |-> <<>>]
    /\ peerOpen = [h \in Socks |-> FALSE]
    /\ log = <<>>
    /\ panicAt = 0
    /\ recs \in Records \X PairRecords
    /\ outs = <<>>

\* bincode::serialize applied to the next record
Encode ==
    /\ Len(outs) < Len(recs)
    /\ outs' = Append(outs, serialize(recs[Len(outs) + 1]))
    /\ UNCHANGED <<pc, service, sock, nextSock, cur, data, payload, nConnect, nWrite,
                   wres, stream, peerOpen, log, panicAt, recs>>

NextEnc == Encode

SpecEnc == InitEnc /\ [][NextEnc]_vars

---------------------------------------------------------------------------
(* A reference decoder and a reference layout, written independently of    *)
(* the encoder                                                             *)

\* field, byte offset, byte width, type of the 21 fixed-width fields
Layout ==
    << <<"altitude", 0, 4, "i32">>, <<"agl", 4, 4, "i32">>,
       <<"groundspeed", 8, 4, "i32">>, <<"ias", 12, 4, "i32">>,
       <<"headingTrue", 16, 4, "i32">>, <<"headingMagnetic", 20, 4, "i32">>,
       <<"latitude", 24, 8, "f64">>, <<"longitude", 32, 8, "f64">>,
       <<"verticalSpeed", 40, 4, "i32">>, <<"landingVerticalSpeed", 44, 4, "i32">>,
       <<"gForce", 48, 4, "i32">>, <<"fuel", 52, 4, "i32">>,
       <<"transponder", 56, 4, "i32">>, <<"bridgeType", 60, 1, "u8">>,
       <<"isOnGround", 61, 1, "bool">>, <<"isSlew", 62, 1, "bool">>,
       <<"isPaused", 63, 1, "bool">>, <<"pitch", 64, 4, "i32">>,
       <<"roll", 68, 4, "i32">>, <<"time", 72, 4, "i32">>, <<"fps", 76, 4, "i32">> >>

\* the bytes of p at offsets off .. off+w-1
Slice(p, off, w) == SubSeq(p, off + 1, off + w)

DecI32(b) ==
    b[1] + 256 * b[2] + 65536 * b[3]
    + 16777216 * (IF b[4] >= 128 THEN b[4] - 256 ELSE b[4])

DecF64(b) == <<b[8], b[7], b[6], b[5], b[4], b[3], b[2], b[1]>>

\* a little-endian u64 below 2^24 (Len(b) = 8)
DecLen(b) == b[1] + 256 * b[2] + 65536 * b[3]

\* the value a positional decoder reads from the w bytes b of a field of type ty
Decodes(ty, b, v) ==
    CASE ty = "i32" -> Len(b) = 4 /\ DecI32(b) = v
      [] ty = "f64" -> Len(b) = 8 /\ DecF64(b) = v
      [] ty = "u8" -> Len(b) = 1 /\ b[1] = v
      [] ty = "bool" -> Len(b) = 1 /\ b[1] \in {0, 1} /\ (b[1] = 1) = v

\* every fixed-width field of d is read back from p at its fixed position
FixedRoundTrip(d, p) ==
    \A i \in DOMAIN Layout :
        Decodes(Layout[i][4], Slice(p, Layout[i][2], Layout[i][3]), d[Layout[i][1]])

\* the first n bytes of text s
Trunc(s, n) == SubSeq(s, 1, IF Len(s) < n THEN Len(s) ELSE n)

\* the text field read as W bytes at the offset after the last fixed field
TextRoundTripFixed(d, p, W) ==
    /\ Len(p) >= 80 + Len(Trunc(d.aircraftType, W))
    /\ Slice(p, 80, Len(Trunc(d.aircraftType, W))) = Trunc(d.aircraftType, W)

\* the text field read as an 8-byte little-endian length and that many bytes
TextRoundTripPrefixed(d, p) ==
    /\ Len(p) >= 88
    /\ Slice(p, 84, 4) = <<0, 0, 0, 0>>
    /\ DecLen(Slice(p, 80, 8)) = Len(d.aircraftType)
    /\ Slice(p, 88, Len(p) - 88) = d.aircraftType

---------------------------------------------------------------------------
(* Claims on the encoder, under SpecEnc *)

C6_Offsets ==
    /\ \A i \in DOMAIN Layout :
          Layout[i][2] = (IF i = 1 THEN 0 ELSE Layout[i - 1][2] + Layout[i - 1][3])
    /\ \A i \in DOMAIN Layout : Layout[i][1] = PflyIpcData[i][1]
    /\ \A k \in DOMAIN outs :
          /\ Len(outs[k]) >= 80
          /\ \A i \in DOMAIN Layout :
                Layout[i][4] # "bool" =>
                    Decodes(Layout[i][4], Slice(outs[k], Layout[i][2], Layout[i][3]),
                            recs[k][Layout[i][1]])
    /\ \E t, f \in 0..255 :
          /\ t # f
          /\ \A k \in DOMAIN outs :
                \A i \in DOMAIN Layout :
                    Layout[i][4] = "bool" =>
                        outs[k][Layout[i][2] + 1] = (IF recs[k][Layout[i][1]] THEN t ELSE f)

C6_Witness ==
    /\ Len(outs) = 2
    /\ recs[1].isPaused /\ recs[1].isOnGround /\ ~recs[1].isSlew
    /\ recs[2].isOnGround /\ ~recs[2].isPaused
    /\ recs[1].fps = 120

---------------------------------------------------------------------------
(* Claims on init and send_message, under Spec *)

\* C1 as stated: after a send_message call on a handle has returned, the caller
\* still owns that handle, so that a further send on the same handle is possible.
C1_HandleReusable ==
    \A i \in DOMAIN log : sock[log[i].h].owner = "caller"

\* C2: a handle whose connect failed is never given to the caller: init is then
\* still at the check of the result or the calling flow has ended in the panic of
\* line 29; every handle the caller gets, and every handle sent on, was
\* connected successfully.
C2_FailedConnectPanics ==
    /\ \A h \in Socks :
          sock[h].conn \notin {"none", "Ok"} =>
              /\ sock[h].owner \notin {"caller", "send_message"}
              /\ \/ pc = "init_connected" /\ cur = h
                 \/ pc = "panicked" /\ panicAt = 29
    /\ \A h \in Socks :
          sock[h].owner \in {"caller", "send_message"} =>
              sock[h].conn = "Ok" /\ sock[h].state = "connected"
    /\ \A i \in DOMAIN log : sock[log[i].h].conn = "Ok"

C2_Witness ==
    /\ pc = "panicked"
    /\ panicAt = 29
    /\ \E h \in Socks : sock[h].conn = "ENOENT" /\ sock[h].owner = "none"
    /\ \E h \in Socks : sock[h].conn = "Ok"

\* C3: send_message returns true exactly when the OS write succeeded, false for
\* every write error; no panic happens inside send_message.
C3_BoolResult ==
    /\ \A i \in DOMAIN log : log[i].ret = (log[i].wres.err = "none")
    /\ pc = "panicked" =>
          /\ panicAt \in {25, 29}
          /\ \A h \in Socks : sock[h].owner # "send_message"
    /\ pc = "send_return" => wres.err # "unset"

C3_Witness ==
    /\ Len(log) = 2
    /\ log[1].wres.err = "EPIPE" /\ ~log[1].ret
    /\ log[2].wres.err = "none" /\ log[2].ret
    /\ pc = "idle"

\* C8 as stated: after send_message has returned, the handle it was given is
\* still open and connected.
C8_HandleStillOpen ==
    \A i \in DOMAIN log : sock[log[i].h].state = "connected"

\* C9 as stated: every init call makes exactly one OS connect attempt and every
\* send_message call exactly one OS write attempt.
C9_ExactlyOneAttempt ==
    /\ pc = "panicked" => nConnect = 1
    /\ \A i \in DOMAIN log : log[i].nWrite = 1

\* C9 amended: no call makes a second attempt.  An init call makes exactly one
\* connect attempt once its socket is allocated, and none when the allocation of
\* line 25 fails (it panics before connecting); a send_message call makes exactly
\* one write attempt.
C9_NoRetry ==
    /\ nConnect <= 1
    /\ nWrite <= 1
    /\ pc = "init_connected" => nConnect = 1
    /\ (pc = "panicked" /\ panicAt = 29) => nConnect = 1
    /\ (pc = "panicked" /\ panicAt = 25) => nConnect = 0
    /\ pc = "send_return" => nWrite = 1
    /\ \A i \in DOMAIN log : log[i].nWrite = 1

C9_Witness ==
    /\ pc = "panicked"
    /\ panicAt = 29
    /\ nConnect = 1
    /\ Len(log) = 1
    /\ ~log[1].ret
    /\ log[1].nWrite = 1

\* C10: when the single write accepts fewer bytes than the payload has,
\* send_message still returns true, and the peer has got, then and ever after,
\* only the accepted bytes.
C10_ShortWrite ==
    \A i \in DOMAIN log :
        (log[i].wres.err = "none" /\ log[i].wres.n < Len(log[i].payload)) =>
            /\ log[i].ret
            /\ log[i].nWrite = 1
            /\ stream[log[i].h] = SubSeq(log[i].payload, 1, log[i].wres.n)
            /\ Len(stream[log[i].h]) < Len(log[i].payload)

C10_Witness ==
    /\ Len(log) = 2
    /\ log[1].ret /\ log[1].wres.n = 80 /\ Len(stream[log[1].h]) = 80
    /\ log[2].ret /\ log[2].wres.n = 0 /\ stream[log[2].h] = <<>>
    /\ pc = "idle"

=============================================================================
